---------------------------- MODULE Spec2Model ----------------------------
(***************************************************************************)
(* Model of the websocket control loop of src/main.cpp: the onMessage      *)
(* handler (hasData, json parsing, convertToCoordinates, polyfit, latency  *)
(* compensation, MPC solve, conversion of the solution to a "steer"        *)
(* message, 100 ms sleep, send) and the onDisconnection handler, for one   *)
(* session.                                                                *)
(*                                                                         *)
(* Numbers are fixed point.  Unless said otherwise:                        *)
(*   positions, speed, polynomial coefficients : whole units               *)
(*   angles, steering, throttle, dt            : 1/1000  (milli)           *)
(*   the six components of the state vector    : 1/1000000 (micro)         *)
(* Strings are sequences of one-character strings, positions are 0-based   *)
(* as in std::string.                                                      *)
(***************************************************************************)
EXTENDS Integers, Sequences, FiniteSets

VARIABLES
    pc,          \* position of the (single) event-loop thread:
                 \* "idle" | "solving" | "sleeping" | "crashed"
    connected,   \* the peer's end of the session is still open
    closed,      \* onDisconnection has run (ws.close())
    dt,          \* mpc.getTimeInterval(), fixed when MPC() is constructed
    asserts,     \* the build keeps assert() (no NDEBUG)
    nMsgs,       \* number of inbound messages handed to onMessage so far
    cur,         \* the message the handler was last invoked with
    coeffs,      \* local `coeffs` of the handler
    state,       \* local `state` of the handler
    solution,    \* <<solution[6], solution[7]>> returned by mpc.Solve
    msg,         \* the "steer" message being built / slept on
    out,         \* every ws.send so far, in order: [tag, id]
    lastSent,    \* the latest ws.send with its content
    hist         \* observation only: counters and the last commands

vars == <<pc, connected, closed, dt, asserts, nMsgs, cur, coeffs, state,
          solution, msg, out, lastSent, hist>>

\* ------------------------------------------------------------------ bounds

\* Number of inbound messages of a run.
MaxMsgs == 2

\* ------------------------------------------------------------- arithmetic

Abs(a) == IF a < 0 THEN -a ELSE a

Min(a, b) == IF a < b THEN a ELSE b

\* C++ division of doubles, kept to the fixed-point grid (rounds toward 0).
TruncDiv(a, b) == IF a >= 0 THEN a \div b ELSE -((-a) \div b)

\* pi(), milli.
Pi == 3142

\* deg2rad(x), x in degrees, result in milli-radians.
deg2rad(x) == (x * Pi) \div 180

\* Lf = 2.67, in 1/100.
Lf == 267

\* fmod(x, y): the remainder has the sign of x and magnitude below y.
fmod(x, y) == IF x >= 0 THEN x % y ELSE -((-x) % y)

\* sin, cos, atan on the angles the model uses (milli in, milli out; atan
\* takes a whole-unit slope).
sin(a) ==
    CASE a = 0 -> 0
      [] a = 785 -> 707
      [] a = -785 -> -707
      [] a = 1571 -> 1000
      [] a = -1571 -> -1000

cos(a) ==
    CASE a = 0 -> 1000
      [] a = 785 -> 707
      [] a = -785 -> 707
      [] a = 1571 -> 0
      [] a = -1571 -> 0

atan(c) ==
    CASE c = 0 -> 0
      [] c = 1 -> 785
      [] c = -1 -> -785

\* ----------------------------------------------------------------- hasData

\* size_t arithmetic wraps; the modulus only has to exceed every length.
SizeModulus == 2 ^ 30

npos == SizeModulus - 1

\* s.find(pat): first position where pat occurs, else npos.
find(s, pat) ==
    LET hits == {i \in 0..(Len(s) - Len(pat)) :
                    \A k \in 1..Len(pat) : s[i + k] = pat[k]}
    IN  IF hits = {} THEN npos
        ELSE CHOOSE i \in hits : \A j \in hits : i <= j

\* s.rfind(pat): last position where pat occurs, else npos.
rfind(s, pat) ==
    LET hits == {i \in 0..(Len(s) - Len(pat)) :
                    \A k \in 1..Len(pat) : s[i + k] = pat[k]}
    IN  IF hits = {} THEN npos
        ELSE CHOOSE i \in hits : \A j \in hits : i >= j

\* s.substr(pos, count), pos <= s.size(): count is cut to the rest of s.
substr(s, pos, count) == SubSeq(s, pos + 1, pos + Min(count, Len(s) - pos))

\* A plausible slip: the "null" test dropped.
hasDataNoNullTest(s) ==
    LET b1 == find(s, <<"[">>)
        b2 == rfind(s, <<"}", "]">>)
    IN  IF b1 # npos /\ b2 # npos
        THEN substr(s, b1, (b2 - b1 + 2) % SizeModulus)
        ELSE <<>>

hasData(s) ==
    LET found_null == find(s, <<"n", "u", "l", "l">>)
        b1 == find(s, <<"[">>)
        b2 == rfind(s, <<"}", "]">>)
    IN  IF found_null # npos THEN <<>>
        ELSE IF b1 # npos /\ b2 # npos
        THEN substr(s, b1, (b2 - b1 + 2) % SizeModulus)
        ELSE <<>>


\* ------------------------------------------------------- inbound messages

\* In a message text "T" stands for the characters of the JSON string
\* "telemetry", "E" for those of another event name, and "d" for the
\* members of the data object, whose content is the message's `data`.
\* `data.fields` is the set of members the object has.
Fields == {"ptsx", "ptsy", "x", "y", "psi", "speed", "steering_angle",
           "throttle"}

Telemetry(fs, wx, wy, x, y, psi, v, sa, th) ==
    [text |-> <<"4", "2", "[", "T", ",", "{", "d", "}", "]">>,
     data |-> [fields |-> fs, ptsx |-> wx, ptsy |-> wy, x |-> x, y |-> y,
               psi |-> psi, speed |-> v, steering_angle |-> sa,
               throttle |-> th]]

NoData ==
    [fields |-> {}, ptsx |-> <<>>, ptsy |-> <<>>, x |-> 0, y |-> 0,
     psi |-> 0, speed |-> 0, steering_angle |-> 0, throttle |-> 0]

Text(t) == [text |-> t, data |-> NoData]

\* Waypoints that fit: y = 1 + x seen from the origin, with four reports
\* of speed, steering angle and throttle; the line wx = 1 seen from (1, 0)
\* heading pi/2 (local y = 0); y = x^3 with five points.
GoodTelemetry ==
    { Telemetry(Fields, <<0, 1, 2, 3>>, <<1, 2, 3, 4>>, 0, 0, 0, 10, 0, 500),
      Telemetry(Fields, <<0, 1, 2, 3>>, <<1, 2, 3, 4>>, 0, 0, 0, 10, 100, 0),
      Telemetry(Fields, <<0, 1, 2, 3>>, <<1, 2, 3, 4>>, 0, 0, 0, 10, 0, 0),
      Telemetry(Fields, <<0, 1, 2, 3>>, <<1, 2, 3, 4>>, 0, 0, 0, 0, 100, 500),
      Telemetry(Fields, <<1, 1, 1, 1>>, <<0, 1, 2, 3>>, 1, 0, 1571,
                10, -436, 300),
      Telemetry(Fields, <<-1, 0, 1, 2, -2>>, <<-1, 0, 1, 8, -8>>, 0, 0, 0,
                20, 0, -1000) }

\* Waypoints the fit cannot take: three points; ptsx longer than ptsy;
\* ptsx shorter than ptsy; all points at local x = 2.
BadWaypointTelemetry ==
    { Telemetry(Fields, <<0, 1, 2>>, <<1, 2, 3>>, 0, 0, 0, 10, 100, 500),
      Telemetry(Fields, <<0, 1, 2, 3>>, <<1, 2, 3>>, 0, 0, 0, 10, 100, 500),
      Telemetry(Fields, <<0, 1, 2, 3>>, <<1, 2, 3, 4, 5>>, 0, 0, 0, 10, 0, 0),
      Telemetry(Fields, <<2, 2, 2, 2>>, <<0, 1, 2, 3>>, 0, 0, 0, 10, 100, 0) }

\* Telemetry without one of the members the handler reads.
IncompleteTelemetry ==
    { Telemetry(Fields \ {"throttle"}, <<0, 1, 2, 3>>, <<1, 2, 3, 4>>,
                0, 0, 0, 10, 100, 0),
      Telemetry(Fields \ {"ptsx"}, <<>>, <<1, 2, 3, 4>>, 0, 0, 0, 10, 0, 0) }

OtherMessages ==
    { Text(<<"4", "2">>),                                      \* 42
      Text(<<"4", "0", "x">>),                                 \* 40x
      Text(<<"4", "2", "x">>),                                 \* 42x
      Text(<<"4", "2", "[", "T", ",", "n", "u", "l", "l", "]">>),
                                                   \* 42["telemetry",null]
      Text(<<"4", "2", "[", "T", ",", "{", "n", "u", "l", "l", "}", "]">>),
                                             \* 42["telemetry",{..null..}]
      Text(<<"4", "2", "}", "]", "[">>),                       \* 42}][
      Text(<<"4", "2", "}", "]", "x", "[">>),                  \* 42}]x[
      Text(<<"4", "2", "[", "{", "d", "}", "]">>),             \* 42[{..}]
      [text |-> <<"4", "2", "[", "E", ",", "{", "d", "}", "]">>,
       data |-> [NoData EXCEPT !.fields = Fields]] }           \* other event

Messages ==
    GoodTelemetry \cup BadWaypointTelemetry \cup IncompleteTelemetry
        \cup OtherMessages

\* json::parse(s) followed by j[0].get<string>(): the two shapes that are a
\* JSON array starting with a string; every other text of Messages makes
\* json::parse or get<string> throw.
parse(s) ==
    IF s = <<"[", "T", ",", "{", "d", "}", "]">>
    THEN [ok |-> TRUE, event |-> "telemetry"]
    ELSE IF s = <<"[", "E", ",", "{", "d", "}", "]">>
    THEN [ok |-> TRUE, event |-> "other"]
    ELSE [ok |-> FALSE, event |-> ""]

\* ------------------------------------------------------ transform and fit

\* convertToCoordinates: row 0 (x) and row 1 (y) of pathpoints.
convertToCoordinates(x, y, psi, ptsx, ptsy) ==
    [i \in 1..Len(ptsx) |->
        << (cos(psi) * (ptsx[i] - x) + sin(psi) * (ptsy[i] - y)) \div 1000,
           (-sin(psi) * (ptsx[i] - x) + cos(psi) * (ptsy[i] - y)) \div 1000 >>]

RECURSIVE pow(_, _)
pow(x, i) == IF i = 0 THEN 1 ELSE x * pow(x, i - 1)

RECURSIVE polyevalFrom(_, _, _)
polyevalFrom(c, x, i) ==
    IF i > Len(c) THEN 0 ELSE c[i] * pow(x, i - 1) + polyevalFrom(c, x, i + 1)

\* polyeval: sum of coeffs[i] * x^i.
polyeval(c, x) == polyevalFrom(c, x, 1)

\* Coefficient vectors on the fixed-point grid.
CoeffGrid == [1..4 -> -1..1]

RECURSIVE SumSq(_, _, _, _)
SumSq(c, xvals, yvals, i) ==
    IF i > Len(xvals) THEN 0
    ELSE (polyeval(c, xvals[i]) - yvals[i]) * (polyeval(c, xvals[i]) - yvals[i])
         + SumSq(c, xvals, yvals, i + 1)

\* polyfit(xvals, yvals, 3) with its precondition met: the least-squares
\* solutions of A c = yvals, A the Vandermonde matrix, among the vectors of
\* the grid.  One vector when A has full rank (four distinct x); with fewer
\* distinct x the system is rank deficient, QR without pivoting raises
\* nothing, and the result is one of the minimisers.
polyfit(xvals, yvals) ==
    LET residual == [c \in CoeffGrid |-> SumSq(c, xvals, yvals, 1)]
        least == CHOOSE r \in {residual[c] : c \in CoeffGrid} :
                    \A c \in CoeffGrid : r <= residual[c]
    IN  {c \in CoeffGrid : residual[c] = least}

\* ----------------------------------------------------- latency compensation

\* The steering and throttle that latency compensation takes as the last
\* command: the members of this telemetry message.
\* A plausible slip: the actuation the handler last sent is used instead.
carriedActuation(d) == <<hist.lastCmd.steering_angle, hist.lastCmd.throttle>>

lastActuation(d) == <<d.steering_angle, d.throttle>>

\* A plausible slip: the heading is advanced by the throttle.
latencyStateThrottleHeading(v, steering_angle, throttle, cte, epsi, dt_) ==
    LET psi_actual == TruncDiv(-(v * throttle * dt_) * 100, Lf)
    IN  << v * dt_ * 1000,
           0,
           psi_actual,
           v * 1000000 + throttle * dt_,
           cte * 1000000 + v * sin(epsi) * dt_,
           epsi * 1000 + psi_actual >>

\* px_actual, py_actual, psi_actual, v_actual, cte_actual, epsi_actual.
latencyState(v, steering_angle, throttle, cte, epsi, dt_) ==
    LET psi_actual == TruncDiv(-(v * steering_angle * dt_) * 100, Lf)
    IN  << v * dt_ * 1000,
           0,
           psi_actual,
           v * 1000000 + throttle * dt_,
           cte * 1000000 + v * sin(epsi) * dt_,
           epsi * 1000 + psi_actual >>

\* ------------------------------------------------------- the steer message

\* steering_angle and throttle members of msgJson.
steerMessage(sol) ==
    [steering_angle |-> -TruncDiv(sol[1] * 1000, deg2rad(25)),
     throttle |-> fmod(sol[2], 1000)]

\* -------------------------------------------------------------- mpc.Solve

\* Actuator bounds of the optimizer: steer within +-deg2rad(25), accel
\* within [-1, 1].  A converged solve returns values inside them: these
\* <<solution[6], solution[7]>>.
ConvergedSolutions ==
    { <<-deg2rad(25), 1000>>, <<200, 300>>, <<deg2rad(25), -1000>> }

\* A solve that did not converge returns whatever its last iterate holds.
DivergedSolutions == { <<500, 1500>>, <<200, -2300>>, <<-100, 300>> }

\* What mpc.Solve(state, coeffs) can return in solution[6], solution[7];
\* `ok` is the solver's own status, which the return value does not carry.
Solve(st, c) ==
    { [x |-> x, ok |-> TRUE] : x \in ConvergedSolutions }
    \cup { [x |-> x, ok |-> FALSE] : x \in DivergedSolutions }

\* mpc.getTimeInterval(): a fixed interval, seconds in 1/1000.
TimeIntervals == {0, 100}

\* --------------------------------------------------------------- handler

NoCoeffs == <<0, 0, 0, 0>>

NoState == <<0, 0, 0, 0, 0, 0>>

NoSolution == [x |-> <<0, 0>>, ok |-> TRUE]

NoMsg == [steering_angle |-> 0, throttle |-> 0]

xvalsOf(pathpoints) == [i \in DOMAIN pathpoints |-> pathpoints[i][1]]

yvalsOf(pathpoints) == [i \in DOMAIN pathpoints |-> pathpoints[i][2]]

\* Coefficients fitted to values read past the end of ptsy.
GarbageCoeffs == { <<1, -1, 0, 1>>, <<-1, 0, 1, 0>> }

\* Lines 124-128: convertToCoordinates and polyfit with their assert()s.
\* With assert() compiled out, a ptsx longer than ptsy reads ptsy past its
\* end (any value, or a fault), a ptsx shorter than ptsy uses the first
\* points only, and fewer than four points give an underdetermined solve.
fitOutcomes(d, withAsserts) ==
    LET n == Len(d.ptsx)
        pts == IF n <= Len(d.ptsy) THEN d.ptsy ELSE d.ptsx
        pathpoints == convertToCoordinates(d.x, d.y, d.psi, d.ptsx, pts)
        fits == { [kind |-> "fit", coeffs |-> c] :
                    c \in polyfit(xvalsOf(pathpoints), yvalsOf(pathpoints)) }
    IN  IF withAsserts /\ (n # Len(d.ptsy) \/ n < 4)
        THEN { [kind |-> "abort", coeffs |-> NoCoeffs] }
        ELSE IF n > Len(d.ptsy)
        THEN { [kind |-> "fit", coeffs |-> c] : c \in GarbageCoeffs }
             \cup { [kind |-> "abort", coeffs |-> NoCoeffs] }
        ELSE fits

\* The body of onMessage up to the call of mpc.Solve: what it does with
\* message m.  "ignored": returns without sending; "manual": sends the
\* manual event; "throw": json throws, nothing catches, std::terminate;
\* "abort": an assert fails (or the out-of-bounds read faults); "fit": the
\* pipeline goes on with these coefficients.
handle(m, withAsserts) ==
    LET sdata == m.text
        s == hasData(sdata)
        j == parse(s)
    IN  IF ~(Len(sdata) > 2 /\ sdata[1] = "4" /\ sdata[2] = "2")
        THEN { [kind |-> "ignored", coeffs |-> NoCoeffs] }
        ELSE IF s = <<>>
        THEN { [kind |-> "manual", coeffs |-> NoCoeffs] }
        ELSE IF ~j.ok
        THEN { [kind |-> "throw", coeffs |-> NoCoeffs] }
        ELSE IF j.event # "telemetry"
        THEN { [kind |-> "ignored", coeffs |-> NoCoeffs] }
        ELSE IF m.data.fields # Fields
        THEN { [kind |-> "throw", coeffs |-> NoCoeffs] }
        ELSE fitOutcomes(m.data, withAsserts)

\* handle, tabulated once for every message of the model.
handled == [m \in Messages, a \in BOOLEAN |-> handle(m, a)]

NoCmd == [valid |-> FALSE, steering_angle |-> 0, throttle |-> 0]

NoSend ==
    [tag |-> "none", id |-> 0, steering_angle |-> 0, throttle |-> 0,
     sol |-> NoSolution, prevOk |-> "none", lastGood |-> NoCmd,
     peerConnected |-> TRUE]

Init ==
    /\ pc = "idle"
    /\ connected = TRUE
    /\ closed = FALSE
    /\ dt \in TimeIntervals
    /\ asserts \in BOOLEAN
    /\ nMsgs = 0
    /\ cur = [id |-> 0, text |-> <<>>, data |-> NoData]
    /\ coeffs = NoCoeffs
    /\ state = NoState
    /\ solution = NoSolution
    /\ msg = NoMsg
    /\ out = <<>>
    /\ lastSent = NoSend
    /\ hist = [nTelemetry |-> 0, nRuns |-> 0, nSteers |-> 0, lastRunId |-> 0,
               lastCmd |-> NoCmd, lastGood |-> NoCmd,
               prevOk |-> "none"]

\* Whether message m reaches the `event == "telemetry"` branch.
IsTelemetryEvent(m) ==
    /\ Len(m.text) > 2 /\ m.text[1] = "4" /\ m.text[2] = "2"
    /\ hasData(m.text) # <<>>
    /\ parse(hasData(m.text)).ok
    /\ parse(hasData(m.text)).event = "telemetry"

\* onMessage, lines 89-153: from the arrival of m to the call of mpc.Solve,
\* or to the handler's return when m is not a telemetry event.
OnMessage(m) ==
    /\ pc = "idle"
    /\ connected
    /\ ~closed
    /\ nMsgs < MaxMsgs
    /\ nMsgs' = nMsgs + 1
    /\ cur' = [id |-> nMsgs + 1, text |-> m.text, data |-> m.data]
    /\ \E o \in handled[m, asserts] :
        /\ pc' = CASE o.kind \in {"ignored", "manual"} -> "idle"
                   [] o.kind \in {"throw", "abort"} -> "crashed"
                   [] o.kind = "fit" -> "solving"
        /\ coeffs' = o.coeffs
        /\ state' = IF o.kind = "fit"
                    THEN LET cte == o.coeffs[1]
                             epsi == -atan(o.coeffs[2])
                             last == lastActuation(m.data)
                         IN  latencyState(m.data.speed, last[1], last[2],
                                          cte, epsi, dt)
                    ELSE NoState
        /\ out' = IF o.kind = "manual"
                  THEN Append(out, [tag |-> "manual", id |-> nMsgs + 1])
                  ELSE out
        /\ lastSent' = IF o.kind = "manual"
                       THEN [NoSend EXCEPT !.tag = "manual", !.id = nMsgs + 1,
                                           !.peerConnected = connected]
                       ELSE lastSent
        /\ hist' = [hist EXCEPT
                      !.nTelemetry = IF IsTelemetryEvent(m) THEN @ + 1 ELSE @,
                      !.lastRunId = IF o.kind = "fit" THEN nMsgs + 1 ELSE @]
    /\ UNCHANGED <<connected, closed, dt, asserts, solution, msg>>

\* Lines 154-192: mpc.Solve returns, the steer message is built.
SolveStep ==
    /\ pc = "solving"
    /\ \E sol \in Solve(state, coeffs) :
        /\ solution' = sol
        /\ msg' = steerMessage(sol.x)
    /\ pc' = "sleeping"
    /\ hist' = [hist EXCEPT !.nRuns = @ + 1]
    /\ UNCHANGED <<connected, closed, dt, asserts, nMsgs, cur, coeffs, state,
                   out, lastSent>>

\* Lines 203-205: the sleep ends, ws.send(msg), the handler returns.
SleepAndSend ==
    /\ pc = "sleeping"
    /\ out' = Append(out, [tag |-> "steer", id |-> cur.id])
    /\ lastSent' = [tag |-> "steer", id |-> cur.id,
                    steering_angle |-> msg.steering_angle,
                    throttle |-> msg.throttle,
                    sol |-> solution, prevOk |-> hist.prevOk,
                    lastGood |-> hist.lastGood,
                    peerConnected |-> connected]
    /\ hist' = [hist EXCEPT
                  !.nSteers = @ + 1,
                  !.lastCmd = [valid |-> TRUE,
                               steering_angle |-> msg.steering_angle,
                               throttle |-> msg.throttle],
                  !.lastGood = IF solution.ok
                               THEN [valid |-> TRUE,
                                     steering_angle |-> msg.steering_angle,
                                     throttle |-> msg.throttle]
                               ELSE @,
                  !.prevOk = IF solution.ok THEN "ok" ELSE "failed"]
    /\ pc' = "idle"
    /\ coeffs' = NoCoeffs
    /\ state' = NoState
    /\ solution' = NoSolution
    /\ msg' = NoMsg
    /\ UNCHANGED <<connected, closed, dt, asserts, nMsgs, cur>>

\* The peer closes its end; the event loop learns of it only between
\* handlers.
PeerDisconnect ==
    /\ connected
    /\ pc # "crashed"
    /\ connected' = FALSE
    /\ UNCHANGED <<pc, closed, dt, asserts, nMsgs, cur, coeffs, state,
                   solution, msg, out, lastSent, hist>>

\* onDisconnection, lines 232-236: ws.close().
OnDisconnection ==
    /\ pc = "idle"
    /\ ~connected
    /\ ~closed
    /\ closed' = TRUE
    /\ UNCHANGED <<pc, connected, dt, asserts, nMsgs, cur, coeffs, state,
                   solution, msg, out, lastSent, hist>>

Next ==
    \/ \E m \in Messages : OnMessage(m)
    \/ SolveStep
    \/ SleepAndSend
    \/ PeerDisconnect
    \/ OnDisconnection

Spec == Init /\ [][Next]_vars

\* ------------------------------------------------------------ the claims

Prefix42(t) == Len(t) >= 2 /\ t[1] = "4" /\ t[2] = "2"

\* The text holds no payload: it holds "null", or no "[", or no "}]".
CarriesNoPayload(t) ==
    \/ find(t, <<"n", "u", "l", "l">>) # npos
    \/ find(t, <<"[">>) = npos
    \/ rfind(t, <<"}", "]">>) = npos

\* Number of sends with this tag answering message id.
CountOut(id, tag) ==
    Cardinality({i \in DOMAIN out : out[i].id = id /\ out[i].tag = tag})

\* The message last handed to the handler reached the telemetry branch.
CurIsTelemetry == cur.id > 0 /\ IsTelemetryEvent(cur)

\* What C1 asks of the no-payload message last handled.
ManualOnly ==
    /\ pc = "idle"
    /\ CountOut(cur.id, "manual") = 1
    /\ CountOut(cur.id, "steer") = 0
    /\ hist.lastRunId # cur.id

\* C1 as stated: every inbound event message (prefix "42") without a payload
\* is answered with exactly one "manual" event, no "steer", no pipeline run,
\* and no error.
C1_NoPayloadAnsweredManual ==
    (cur.id > 0 /\ Prefix42(cur.text) /\ CarriesNoPayload(cur.text))
        => ManualOnly

\* C1 amended: the same for every event message of more than two characters
\* (the message that is "42" alone is dropped without an answer).
C1_NoPayloadLongerThanPrefixAnsweredManual ==
    (cur.id > 0 /\ Prefix42(cur.text) /\ Len(cur.text) > 2
        /\ CarriesNoPayload(cur.text))
        => ManualOnly

C1_Witness ==
    /\ cur.id > 0
    /\ Prefix42(cur.text)
    /\ find(cur.text, <<"[">>) # npos
    /\ rfind(cur.text, <<"}", "]">>) # npos
    /\ CarriesNoPayload(cur.text)
    /\ lastSent.tag = "manual"
    /\ lastSent.id = cur.id

\* C2 as stated: every message carrying a telemetry event with a payload
\* triggers exactly one pipeline run and exactly one "steer" message before
\* the next message is handled, and the steer replies leave in arrival order.
C2_EveryTelemetryAnsweredOnce ==
    /\ pc \in {"idle", "crashed"}
        => (hist.nRuns = hist.nTelemetry /\ hist.nSteers = hist.nTelemetry)
    /\ pc \in {"solving", "sleeping"}
        => (hist.nSteers = hist.nTelemetry - 1)
    /\ \A i, k \in DOMAIN out : i < k => out[i].id < out[k].id

\* The waypoints cannot be transformed or fitted: different lengths, fewer
\* than four points, or one local x for all points.
BadWaypoints(d) ==
    \/ Len(d.ptsx) # Len(d.ptsy)
    \/ Len(d.ptsx) < 4
    \/ LET pp == convertToCoordinates(d.x, d.y, d.psi, d.ptsx, d.ptsy)
       IN  \A i, k \in DOMAIN pp : pp[i][1] = pp[k][1]

\* C3 as stated: with waypoints that cannot be transformed or fitted the
\* process keeps running, and what is sent for that cycle is the last good
\* actuation, not a command computed from that fit.
C3_BadWaypointsFailSafe ==
    (CurIsTelemetry /\ cur.data.fields = Fields /\ BadWaypoints(cur.data))
        => /\ pc # "crashed"
           /\ (lastSent.id = cur.id /\ lastSent.tag = "steer")
                => /\ lastSent.lastGood.valid
                   /\ lastSent.steering_angle = lastSent.lastGood.steering_angle
                   /\ lastSent.throttle = lastSent.lastGood.throttle

\* C4 as stated: a solve that did not converge never has its values sent;
\* the first failure holds the last good actuation, a second failure in a
\* row commands a bounded deceleration.
C4_DivergedSolveFallsBack ==
    (lastSent.tag = "steer" /\ ~lastSent.sol.ok)
        => IF lastSent.prevOk = "failed"
           THEN lastSent.throttle \in -1000..-1
           ELSE lastSent.lastGood.valid
                => /\ lastSent.steering_angle = lastSent.lastGood.steering_angle
                   /\ lastSent.throttle = lastSent.lastGood.throttle

\* The payload of the message last handled cannot be parsed, or is a
\* telemetry payload without one of the required members.
CurIsMalformed ==
    /\ cur.id > 0
    /\ Prefix42(cur.text) /\ Len(cur.text) > 2
    /\ hasData(cur.text) # <<>>
    /\ \/ ~parse(hasData(cur.text)).ok
       \/ (IsTelemetryEvent(cur) /\ cur.data.fields # Fields)

\* C5 as stated: a malformed telemetry payload makes the handler skip the
\* cycle without a "steer" message, and the process goes on.
C5_MalformedTelemetrySkipped ==
    CurIsMalformed => (pc = "idle" /\ CountOut(cur.id, "steer") = 0)

\* C6 as stated: no "steer" message is sent on a session whose peer went
\* away while the handler was solving or sleeping.
C6_NoSteerAfterDisconnect ==
    lastSent.tag = "steer" => lastSent.peerConnected

\* C7 as stated: in every "steer" message sent, steering_angle and throttle
\* lie in [-1, 1], whatever the optimizer returned.
C7_SteerFieldsInRange ==
    lastSent.tag = "steer"
        => (Abs(lastSent.steering_angle) <= 1000 /\ Abs(lastSent.throttle) <= 1000)

C9_ZeroSteerLatency ==
    pc = "solving"
        => /\ (cur.data.speed > 0 /\ cur.data.steering_angle = 0)
                => /\ state[3] = 0
                   /\ state[2] = 0
                   /\ state[1] = cur.data.speed * dt * 1000
           /\ (cur.data.steering_angle = 0 /\ cur.data.throttle = 0 /\ dt = 0)
                => state = << 0, 0, 0, cur.data.speed * 1000000,
                              coeffs[1] * 1000000, -atan(coeffs[2]) * 1000 >>

C9_Witness ==
    /\ pc = "solving"
    /\ cur.data.speed > 0
    /\ cur.data.steering_angle = 0
    /\ cur.data.throttle # 0
    /\ dt > 0
    /\ coeffs[2] # 0
    /\ state[1] = cur.data.speed * dt * 1000
    /\ state[3] = 0

\* The value clamped to [-1, 1].
Clamp(a) == IF a > 1000 THEN 1000 ELSE IF a < -1000 THEN -1000 ELSE a

\* C10 as stated: the throttle sent is the optimizer's acceleration clamped
\* to [-1, 1], the bounds 1 and -1 included.
C10_ThrottleIsClampedAcceleration ==
    lastSent.tag = "steer" => lastSent.throttle = Clamp(lastSent.sol.x[2])
=============================================================================
